---- MODULE Spec2Model ----
(***************************************************************************)
(* Custody state machine and ledger projection of the SCM backend          *)
(* (backend/routes/product_routes.py).  The handlers create_product,       *)
(* explicit_custody_transfer (POST /update), delete_product and            *)
(* get_product_blockchain are modelled over the product table, the history *)
(* table and the block chain.  Spec runs every handler to completion, one  *)
(* request at a time; ConcSpec runs the same handlers on several worker    *)
(* threads, a step per database read, commit and ledger append.            *)
(***************************************************************************)
EXTENDS Integers, Sequences, FiniteSets, TLC

\* ------------------------------------------------------------------ bounds
MaxProducts == 2
MaxChain == 6
MaxFailures == 1
NumThreads == 2
ConcMaxChain == 5

\* --------------------------------------------------------------- constants
None == "None"
NoPid == 0
NoIndex == -1
NoBlock == -1

STATUS_ORDER ==
  << "Created", "ReadyForShipping", "Shipped", "InTransit",
     "DeliveredToRetailer", "AvailableForSale", "Sold", "Recalled" >>

\* ROLE_ALLOWED with a status of the next role added to the manufacturer's.
ROLE_ALLOWED_Wide ==
  [ manufacturer |-> {"Created", "ReadyForShipping", "Shipped"},
    distributor  |-> {"Shipped", "InTransit", "DeliveredToRetailer"},
    retailer     |-> {"AvailableForSale", "Sold"} ]

ROLE_ALLOWED ==
  [ manufacturer |-> {"Created", "ReadyForShipping"},
    distributor  |-> {"Shipped", "InTransit", "DeliveredToRetailer"},
    retailer     |-> {"AvailableForSale", "Sold"} ]

\* NEXT_ROLE_MAP with the retailer as the recipient of both handoffs.
NEXT_ROLE_MAP_Retailer ==
  [ ReadyForShipping    |-> "retailer",
    DeliveredToRetailer |-> "retailer" ]

NEXT_ROLE_MAP ==
  [ ReadyForShipping    |-> "distributor",
    DeliveredToRetailer |-> "retailer" ]

\* DISTRIBUTOR_SEQUENCE_MAP with Shipped as the predecessor of both statuses.
DISTRIBUTOR_SEQUENCE_MAP_Skip ==
  [ InTransit           |-> "Shipped",
    DeliveredToRetailer |-> "Shipped" ]

DISTRIBUTOR_SEQUENCE_MAP ==
  [ InTransit           |-> "Shipped",
    DeliveredToRetailer |-> "InTransit" ]

\* The user table (User.query): username -> role.  Roles are fixed.
UserRole ==
  [ alice |-> "manufacturer",
    bob   |-> "distributor",
    carol |-> "distributor",
    dan   |-> "retailer",
    root  |-> "super_admin" ]

Users == DOMAIN UserRole
Statuses == { STATUS_ORDER[i] : i \in 1..Len(STATUS_ORDER) }
Pids == 1..MaxProducts
Threads == 1..NumThreads

\* Values a request body can carry.
ReqStatuses == Statuses \cup {None, "Bogus"}
ReqPids == Pids \cup {NoPid}
\* transfer_to_username: absent, an unknown user, or a user of each role
\* the handoff checks tell apart.
ReqTargets == {None, "ghost", "alice", "bob", "dan"}

Requests ==
  [ actor : Users, pid : ReqPids, status : ReqStatuses, transfer_to : ReqTargets ]

\* ------------------------------------------------------------------- state
VARIABLES
  products,   \* product table: product_id -> [current_status, owner, custodian]
  history,    \* history table: product_id -> sequence of [status, by_who]
  chain,      \* the ledger: sequence of blocks, chain[1] is the genesis block
  nextId,     \* next product id gen_product_id() hands out
  failures,   \* ledger appends that have failed so far
  resp,       \* last response sent: [op, code, error, block]
  thr         \* worker threads: request in flight and what it has read

vars == << products, history, chain, nextId, failures, resp, thr >>

\* ----------------------------------------------------------- pure helpers
\* status_index: 0-based position in STATUS_ORDER, None for an unknown name.
status_index(s) ==
  IF \E i \in 1..Len(STATUS_ORDER) : STATUS_ORDER[i] = s
  THEN (CHOOSE i \in 1..Len(STATUS_ORDER) : STATUS_ORDER[i] = s) - 1
  ELSE NoIndex

\* ROLE_ALLOWED.get(role, [])
RoleAllowed(role) ==
  IF role \in DOMAIN ROLE_ALLOWED THEN ROLE_ALLOWED[role] ELSE {}

\* role_required(roles): the route is entered only with a role in the list.
RoleRequired(roles, role) == role \in roles

\* Block hash: a digest of the block's own fields, injective on them.
BlockHash(index, timestamp, data, previous_hash) ==
  << index, timestamp, data, previous_hash >>

GenesisHash == << >>

MkBlock(index, timestamp, data, previous_hash) ==
  [ index |-> index, timestamp |-> timestamp, data |-> data,
    previous_hash |-> previous_hash,
    hash |-> BlockHash(index, timestamp, data, previous_hash) ]

GenesisBlock == MkBlock(0, 0, [type |-> "genesis"], GenesisHash)

\* The clock reading of an append.  Appends are the only readers of the
\* clock; it has advanced by one tick at each.
Now(ch) == Len(ch)

\* Blockchain.add_block(data): the new block, linked to the chain tail.
NewBlock(ch, data) == MkBlock(Len(ch), Now(ch), data, ch[Len(ch)].hash)

AddBlock(ch, data) == Append(ch, NewBlock(ch, data))

\* The digest recomputed from a stored block's own fields.
BlockHashOf(b) == BlockHash(b.index, b.timestamp, b.data, b.previous_hash)

\* Blockchain.is_valid_chain(): walk the chain from index 1 to the end; at
\* each block compare the stored hash with the digest of the stored fields,
\* then the stored previous_hash with the hash of the block before; stop at
\* the first discrepancy and report its index.
RECURSIVE VerifyFrom(_, _)
VerifyFrom(ch, i) ==
  IF i > Len(ch) THEN [ valid |-> TRUE, index |-> NoIndex ]
  ELSE IF ch[i].hash # BlockHashOf(ch[i])
  THEN [ valid |-> FALSE, index |-> i - 1 ]
  ELSE IF ch[i].previous_hash # ch[i - 1].hash
  THEN [ valid |-> FALSE, index |-> i - 1 ]
  ELSE VerifyFrom(ch, i + 1)

VerifyChain(ch) == VerifyFrom(ch, 2)

\* [b for b in bc.chain if b.data.get("product_id") == product_id]
RECURSIVE ProductBlocks(_, _)
ProductBlocks(ch, pid) ==
  IF ch = << >> THEN << >>
  ELSE LET b == Head(ch)
           rest == ProductBlocks(Tail(ch), pid)
       IN IF "product_id" \in DOMAIN b.data /\ b.data.product_id = pid
          THEN << b >> \o rest
          ELSE rest

\* HTTP status of each outcome of the handlers.
HttpCode(err) ==
  CASE err = "ok" -> 200
    [] err = "ValidationError" -> 400
    [] err = "NotFound: product" -> 404
    [] err = "Forbidden: role not permitted" -> 403
    [] err = "Forbidden: wrong custodian" -> 403
    [] err = "Forbidden: role cannot set status" -> 403
    [] err = "InvalidTransition" -> 403
    [] err = "InvalidSequence" -> 403
    [] err = "MissingTransferTarget" -> 400
    [] err = "NotFound: recipient" -> 404
    [] err = "RoleMismatch" -> 400
    [] OTHER -> 500

\* block: index of the block in the response body, NoBlock for null.
Response(op, err, block) ==
  [ op |-> op, code |-> HttpCode(err), error |-> err, block |-> block ]

\* ------------------------------------------------- explicit_custody_transfer
RoleOf(actor) == UserRole[actor]

\* The gate of line 104 comparing the actor with the owner.
WrongCustodian_Owner(p, actor, role) ==
  p.owner # actor /\ role # "super_admin"

\* line 104: the actor is neither the custodian nor an administrator.
WrongCustodian(p, actor, role) ==
  p.custodian # actor /\ role # "super_admin"

\* Line 105 with Recalled open to every role.
RoleCannotSet_Recall(role, status) ==
  status # "Recalled" /\ status \notin RoleAllowed(role)

\* line 105: the status is not one the role may set.
RoleCannotSet(role, status) == status \notin RoleAllowed(role)

\* The comparison of line 106 with < for <=.
NotMonotonic_Strict(new_status, current_status) ==
  status_index(new_status) < status_index(current_status)

\* line 106: the requested status is not strictly later than the current.
NotMonotonic(new_status, current_status) ==
  status_index(new_status) <= status_index(current_status)

\* Lines 108-111 left out: no status asks for a predecessor.
OutOfSequence_Never(role, new_status, current_status) == FALSE

\* lines 108-111: a distributor setting a status with a required predecessor
\* from any other status.
OutOfSequence(role, new_status, current_status) ==
  /\ role = "distributor"
  /\ new_status \in DOMAIN DISTRIBUTOR_SEQUENCE_MAP
  /\ current_status # DISTRIBUTOR_SEQUENCE_MAP[new_status]

\* Lines 114-119 without the comparison of the recipient's role (line 119).
TransferTargetError_NoRole(new_status, transfer_to) ==
  IF new_status \notin DOMAIN NEXT_ROLE_MAP THEN "ok"
  ELSE IF transfer_to = None THEN "MissingTransferTarget"
  ELSE IF transfer_to \notin Users THEN "NotFound: recipient"
  ELSE "ok"

\* lines 114-119: the checks of the transfer target of a handoff status.
TransferTargetError(new_status, transfer_to) ==
  IF new_status \notin DOMAIN NEXT_ROLE_MAP THEN "ok"
  ELSE IF transfer_to = None THEN "MissingTransferTarget"
  ELSE IF transfer_to \notin Users THEN "NotFound: recipient"
  ELSE IF UserRole[transfer_to] # NEXT_ROLE_MAP[new_status] THEN "RoleMismatch"
  ELSE "ok"

\* The pipeline with the distributor's sequence check (lines 108-111) moved
\* in front of the comparison of line 106.
TransferError_SequenceFirst(ps, req) ==
  LET role == RoleOf(req.actor) IN
  IF ~RoleRequired({"manufacturer", "distributor", "retailer"}, role)
  THEN "Forbidden: role not permitted"
  ELSE IF req.pid = NoPid \/ req.status = None THEN "ValidationError"
  ELSE IF req.pid \notin DOMAIN ps THEN "NotFound: product"
  ELSE LET p == ps[req.pid] IN
    IF WrongCustodian(p, req.actor, role) THEN "Forbidden: wrong custodian"
    ELSE IF RoleCannotSet(role, req.status)
    THEN "Forbidden: role cannot set status"
    ELSE IF OutOfSequence(role, req.status, p.current_status)
    THEN "InvalidSequence"
    ELSE IF NotMonotonic(req.status, p.current_status)
    THEN "InvalidTransition"
    ELSE TransferTargetError(req.status, req.transfer_to)

\* The validation pipeline of POST /update, evaluated against the product
\* table ps the request reads: "ok" or the error of the first failing check.
TransferError(ps, req) ==
  LET role == RoleOf(req.actor) IN
  IF ~RoleRequired({"manufacturer", "distributor", "retailer"}, role)
  THEN "Forbidden: role not permitted"
  ELSE IF req.pid = NoPid \/ req.status = None THEN "ValidationError"
  ELSE IF req.pid \notin DOMAIN ps THEN "NotFound: product"
  ELSE LET p == ps[req.pid] IN
    IF WrongCustodian(p, req.actor, role) THEN "Forbidden: wrong custodian"
    ELSE IF RoleCannotSet(role, req.status)
    THEN "Forbidden: role cannot set status"
    ELSE IF status_index(req.status) = NoIndex
            \/ status_index(p.current_status) = NoIndex
    THEN "TypeError"
    ELSE IF NotMonotonic(req.status, p.current_status) THEN "InvalidTransition"
    ELSE IF OutOfSequence(role, req.status, p.current_status)
    THEN "InvalidSequence"
    ELSE TransferTargetError(req.status, req.transfer_to)

\* new_custodian taken from transfer_to_username whenever the request
\* carries one, whatever the status.
NewCustodian_AnyTarget(req) ==
  IF req.transfer_to # None THEN req.transfer_to ELSE req.actor

\* new_custodian: the recipient on a handoff status, else the actor.
NewCustodian(req) ==
  IF req.status \in DOMAIN NEXT_ROLE_MAP THEN req.transfer_to ELSE req.actor

\* p.custodian = ...; p.current_status = ...; commit.  snap is the row as
\* the request read it: the UPDATE carries the columns whose value differs
\* from the value read.
TransferCommit(ps, req, snap) ==
  [ ps EXCEPT ![req.pid] =
      [ @ EXCEPT !.custodian = IF NewCustodian(req) # snap.custodian
                               THEN NewCustodian(req) ELSE @,
                 !.current_status = IF req.status # snap.current_status
                                    THEN req.status ELSE @ ] ]

\* The History record signed with the resulting custodian.
TransferHistory_NewCustodian(req) ==
  [ status |-> req.status, by_who |-> NewCustodian(req) ]

TransferHistory(req) == [ status |-> req.status, by_who |-> req.actor ]

\* The block payload with the actor recorded as the resulting custodian.
TransferBlockData_Actor(req) ==
  [ type |-> IF req.status \in DOMAIN NEXT_ROLE_MAP
             THEN "custody_transfer" ELSE "status_update",
    product_id |-> req.pid, status |-> req.status,
    actor |-> req.actor, new_custodian |-> req.actor ]

TransferBlockData(req) ==
  [ type |-> IF req.status \in DOMAIN NEXT_ROLE_MAP
             THEN "custody_transfer" ELSE "status_update",
    product_id |-> req.pid, status |-> req.status,
    actor |-> req.actor, new_custodian |-> NewCustodian(req) ]

\* --------------------------------------------------------- create_product
\* create_product without the role list of line 39.
CreateError_AnyRole(actor, hasName) ==
  IF ~hasName THEN "ValidationError" ELSE "ok"

CreateError(actor, hasName) ==
  IF ~RoleRequired({"manufacturer"}, RoleOf(actor))
  THEN "Forbidden: role not permitted"
  ELSE IF ~hasName THEN "ValidationError"
  ELSE "ok"

\* The status a Product row gets when none is given (line 50 gives none).
DefaultStatus == "Created"

NewProduct(actor) ==
  [ current_status |-> DefaultStatus, owner |-> actor, custodian |-> actor ]

CreateHistory(actor) == [ status |-> "Created", by_who |-> actor ]

CreateBlockData(pid, actor) ==
  [ type |-> "create_product", product_id |-> pid,
    owner |-> actor, initial_custodian |-> actor ]

\* --------------------------------------------------------- delete_product
DeleteError(ps, actor, pid) ==
  IF ~RoleRequired({"super_admin"}, RoleOf(actor))
  THEN "Forbidden: role not permitted"
  ELSE IF pid \notin DOMAIN ps THEN "NotFound: product"
  ELSE "ok"

DeleteRow(ps, pid) == [ q \in DOMAIN ps \ {pid} |-> ps[q] ]

DeleteBlockData(pid, actor) ==
  [ type |-> "delete_product", product_id |-> pid, deleted_by |-> actor ]

\* ------------------------------------------------------------------- Init
Idle == [ pc |-> "idle" ]

Init ==
  /\ products = [ q \in {} |-> NewProduct("alice") ]
  /\ history = [ q \in {} |-> << >> ]
  /\ chain = << GenesisBlock >>
  /\ nextId = 1
  /\ failures = 0
  /\ resp = Response("init", "ok", NoBlock)
  /\ thr = [ t \in Threads |-> Idle ]

\* bc.add_block(data) either appends and returns the block, or raises and
\* leaves the chain as it was.
LedgerOutcomes == IF failures < MaxFailures THEN {TRUE, FALSE} ELSE {TRUE}

InsertRow(tbl, pid, row) ==
  [ q \in DOMAIN tbl \cup {pid} |-> IF q = pid THEN row ELSE tbl[q] ]

\* gen_product_id(): an id no product has had.
gen_product_id == nextId

\* ------------------------------------------- handlers, run to completion
\* POST /api/products/
Create(actor, hasName, ledgerOk) ==
  LET err == CreateError(actor, hasName)
      pid == gen_product_id
  IN IF err # "ok"
     THEN /\ resp' = Response("create", err, NoBlock)
          /\ UNCHANGED << products, history, chain, nextId, failures, thr >>
     ELSE /\ nextId <= MaxProducts
          /\ Len(chain) < MaxChain
          /\ products' = InsertRow(products, pid, NewProduct(actor))
          /\ history' = InsertRow(history, pid, << CreateHistory(actor) >>)
          /\ nextId' = nextId + 1
          /\ IF ledgerOk
             THEN /\ chain' = AddBlock(chain, CreateBlockData(pid, actor))
                  /\ resp' = [ Response("create", "ok", Len(chain))
                               EXCEPT !.code = 201 ]
                  /\ UNCHANGED failures
             ELSE /\ resp' = Response("create", "LedgerAppendFailure", NoBlock)
                  /\ failures' = failures + 1
                  /\ UNCHANGED chain
          /\ UNCHANGED thr

\* A rejection that has already written the status when the checks of the
\* transfer target fail.
UpdateRejected_Dirty(err) ==
  /\ err # "ok"
  /\ resp' = Response("update", err, NoBlock)
  /\ IF err \in {"MissingTransferTarget", "NotFound: recipient", "RoleMismatch"}
     THEN \E pid \in DOMAIN products :
            /\ products[pid].current_status = "Created"
            /\ products' = [ products EXCEPT ![pid].current_status = "ReadyForShipping" ]
     ELSE UNCHANGED products
  /\ UNCHANGED << history, chain, nextId, failures, thr >>

\* POST /api/products/update, a request the validation pipeline rejects
\* with error err: the error is returned and nothing is written.
UpdateRejected(err) ==
  /\ err # "ok"
  /\ resp' = Response("update", err, NoBlock)
  /\ UNCHANGED << products, history, chain, nextId, failures, thr >>

\* POST /api/products/update, a request that passes validation: commit the
\* row and its history record, then append the block; a failed append is
\* caught and the response carries a null block.
UpdateAccepted(req, ledgerOk) ==
  /\ TransferError(products, req) = "ok"
  /\ Len(chain) < MaxChain
  /\ products' = TransferCommit(products, req, products[req.pid])
  /\ history' = [ history EXCEPT ![req.pid] = Append(@, TransferHistory(req)) ]
  /\ IF ledgerOk
     THEN /\ chain' = AddBlock(chain, TransferBlockData(req))
          /\ resp' = Response("update", "ok", Len(chain))
          /\ UNCHANGED failures
     ELSE /\ resp' = Response("update", "ok", NoBlock)
          /\ failures' = failures + 1
          /\ UNCHANGED chain
  /\ UNCHANGED << nextId, thr >>

\* A delete that also drops the product's blocks from the chain.
Delete_Purge(actor, pid, ledgerOk) ==
  LET err == DeleteError(products, actor, pid) IN
  IF err # "ok"
  THEN /\ resp' = Response("delete", err, NoBlock)
       /\ UNCHANGED << products, history, chain, nextId, failures, thr >>
  ELSE /\ Len(chain) < MaxChain
       /\ history' = DeleteRow(history, pid)
       /\ products' = DeleteRow(products, pid)
       /\ chain' = SelectSeq(chain, LAMBDA b :
                      ~("product_id" \in DOMAIN b.data /\ b.data.product_id = pid))
       /\ resp' = Response("delete", "ok", NoBlock)
       /\ UNCHANGED << nextId, failures, thr >>

\* DELETE /api/products/<product_id>
Delete(actor, pid, ledgerOk) ==
  LET err == DeleteError(products, actor, pid) IN
  /\ IF err # "ok"
     THEN /\ resp' = Response("delete", err, NoBlock)
          /\ UNCHANGED << products, history, chain, nextId, failures, thr >>
     ELSE /\ Len(chain) < MaxChain
          /\ history' = DeleteRow(history, pid)
          /\ products' = DeleteRow(products, pid)
          /\ IF ledgerOk
             THEN /\ chain' = AddBlock(chain, DeleteBlockData(pid, actor))
                  /\ resp' = Response("delete", "ok", Len(chain))
                  /\ UNCHANGED failures
             ELSE /\ resp' = Response("delete", "LedgerAppendFailure", NoBlock)
                  /\ failures' = failures + 1
                  /\ UNCHANGED chain
          /\ UNCHANGED << nextId, thr >>

\* GET /api/products/blockchain/<product_id>
GetProductBlockchain(pid) ==
  /\ resp' = Response("get_product_blockchain", "ok",
                      Len(ProductBlocks(chain, pid)))
  /\ UNCHANGED << products, history, chain, nextId, failures, thr >>

Next ==
  \/ \E actor \in Users, hasName \in BOOLEAN, ledgerOk \in LedgerOutcomes :
       Create(actor, hasName, ledgerOk)
  \/ \E err \in { TransferError(products, req) : req \in Requests } :
       UpdateRejected(err)
  \/ \E req \in Requests, ledgerOk \in LedgerOutcomes :
       UpdateAccepted(req, ledgerOk)
  \/ \E actor \in Users, pid \in Pids, ledgerOk \in LedgerOutcomes :
       Delete(actor, pid, ledgerOk)
  \/ \E pid \in Pids : GetProductBlockchain(pid)

Spec == Init /\ [][Next]_vars

\* ------------------------------- handlers on concurrent worker threads
\* Each worker serves one request at a time.  A request's database reads
\* (the product row, the recipient) and its validation are one step; the
\* commit of its writes is a second step; bc.add_block is a third.  The row
\* a request has read stays in its session until it commits.
InFlight == Cardinality({ t \in Threads : thr[t].pc # "idle" })

HasRoom == Len(chain) + InFlight < ConcMaxChain

\* A new request goes to the first idle worker.
Dispatch(t) ==
  /\ thr[t].pc = "idle"
  /\ \A u \in Threads : thr[u].pc = "idle" => t <= u

\* lines 96-120: read the product, validate, compute new_custodian.
TUpdateRead(t, req) ==
  /\ Dispatch(t)
  /\ TransferError(products, req) = "ok"
  /\ HasRoom
  /\ thr' = [ thr EXCEPT ![t] =
                [ pc |-> "commit", op |-> "update", req |-> req,
                  snap |-> products[req.pid] ] ]
  /\ UNCHANGED << products, history, chain, nextId, failures, resp >>

\* lines 122-126: write custodian and status, add the history row, commit.
\* The UPDATE of a row deleted in the meantime matches nothing and the
\* commit raises.
TUpdateCommit(t) ==
  /\ thr[t].pc = "commit"
  /\ thr[t].op = "update"
  /\ LET req == thr[t].req IN
     IF req.pid \in DOMAIN products
     THEN /\ products' = TransferCommit(products, req, thr[t].snap)
          /\ history' = [ history EXCEPT ![req.pid] = Append(@, TransferHistory(req)) ]
          /\ thr' = [ thr EXCEPT ![t] =
                        [ pc |-> "append", op |-> "update",
                          data |-> TransferBlockData(req) ] ]
          /\ UNCHANGED << chain, nextId, failures, resp >>
     ELSE /\ resp' = Response("update", "StaleDataError", NoBlock)
          /\ thr' = [ thr EXCEPT ![t] = Idle ]
          /\ UNCHANGED << products, history, chain, nextId, failures >>

\* create_product lines 42-60: insert the product and its first history row.
TCreateCommit(t, actor) ==
  /\ Dispatch(t)
  /\ CreateError(actor, TRUE) = "ok"
  /\ nextId <= MaxProducts
  /\ HasRoom
  /\ products' = InsertRow(products, gen_product_id, NewProduct(actor))
  /\ history' = InsertRow(history, gen_product_id, << CreateHistory(actor) >>)
  /\ nextId' = nextId + 1
  /\ thr' = [ thr EXCEPT ![t] =
                [ pc |-> "append", op |-> "create",
                  data |-> CreateBlockData(gen_product_id, actor) ] ]
  /\ UNCHANGED << chain, failures, resp >>

\* delete_product lines 197-198: read the product.
TDeleteRead(t, actor, pid) ==
  /\ Dispatch(t)
  /\ DeleteError(products, actor, pid) = "ok"
  /\ HasRoom
  /\ thr' = [ thr EXCEPT ![t] =
                [ pc |-> "commit", op |-> "delete", actor |-> actor, pid |-> pid ] ]
  /\ UNCHANGED << products, history, chain, nextId, failures, resp >>

\* delete_product lines 199-201: delete the history rows and the product.
TDeleteCommit(t) ==
  /\ thr[t].pc = "commit"
  /\ thr[t].op = "delete"
  /\ history' = DeleteRow(history, thr[t].pid)
  /\ products' = DeleteRow(products, thr[t].pid)
  /\ thr' = [ thr EXCEPT ![t] =
                [ pc |-> "append", op |-> "delete",
                  data |-> DeleteBlockData(thr[t].pid, thr[t].actor) ] ]
  /\ UNCHANGED << chain, nextId, failures, resp >>

\* An append that links the new block to the tail it saw before another
\* request's block landed: index and previous_hash are those of a block
\* that is already in the chain.
TAppend_Stale(t, ledgerOk) ==
  /\ thr[t].pc = "append"
  /\ LET seen == IF Len(chain) > 1 THEN SubSeq(chain, 1, Len(chain) - 1)
                 ELSE chain
     IN chain' = Append(chain, NewBlock(seen, thr[t].data))
  /\ resp' = Response(thr[t].op, "ok", Len(chain))
  /\ thr' = [ thr EXCEPT ![t] = Idle ]
  /\ UNCHANGED << products, history, nextId, failures >>

\* bc.add_block(...) and the response, for the three writing handlers.
TAppend(t, ledgerOk) ==
  /\ thr[t].pc = "append"
  /\ IF ledgerOk
     THEN /\ chain' = AddBlock(chain, thr[t].data)
          /\ resp' = [ Response(thr[t].op, "ok", Len(chain))
                       EXCEPT !.code = IF thr[t].op = "create" THEN 201 ELSE 200 ]
          /\ UNCHANGED failures
     ELSE /\ resp' = IF thr[t].op = "update"
                     THEN Response("update", "ok", NoBlock)
                     ELSE Response(thr[t].op, "LedgerAppendFailure", NoBlock)
          /\ failures' = failures + 1
          /\ UNCHANGED chain
  /\ thr' = [ thr EXCEPT ![t] = Idle ]
  /\ UNCHANGED << products, history, nextId >>

ConcNext ==
  \/ \E t \in Threads, req \in Requests : TUpdateRead(t, req)
  \/ \E t \in Threads : TUpdateCommit(t)
  \/ \E t \in Threads, actor \in Users : TCreateCommit(t, actor)
  \/ \E t \in Threads, actor \in Users, pid \in Pids : TDeleteRead(t, actor, pid)
  \/ \E t \in Threads : TDeleteCommit(t)
  \/ \E t \in Threads, ledgerOk \in LedgerOutcomes : TAppend(t, ledgerOk)

ConcSpec == Init /\ [][ConcNext]_vars

\* ================================================================ claims
\* Shorthands for the statements below.
Last(seq) == seq[Len(seq)]

\* The step answers a POST /update with success.
UpdateOk == resp'.op = "update" /\ resp'.error = "ok"

\* The step answers a POST /update with the error err.
UpdateFails(err) == resp'.op = "update" /\ resp'.error = err

\* The product an accepted update step is about: the one that gained a
\* history record.
Touched(pid) ==
  /\ pid \in DOMAIN history /\ pid \in DOMAIN history'
  /\ Len(history'[pid]) = Len(history[pid]) + 1

ProjectionUnchanged == UNCHANGED << products, history, chain, nextId >>

\* Requests that name an existing product and carry a status.
OnProduct(req) == req.pid \in DOMAIN products /\ req.status # None

\* The statuses each role may set, as the role table is documented.
DocRoleSet(role) ==
  CASE role = "manufacturer" -> {"Created", "ReadyForShipping"}
    [] role = "distributor" -> {"Shipped", "InTransit", "DeliveredToRetailer"}
    [] role = "retailer" -> {"AvailableForSale", "Sold"}
    [] OTHER -> {}

\* The status order as documented, Created(0) < ... < Recalled(7).
DocIndex(s) ==
  CASE s = "Created" -> 0 [] s = "ReadyForShipping" -> 1 [] s = "Shipped" -> 2
    [] s = "InTransit" -> 3 [] s = "DeliveredToRetailer" -> 4
    [] s = "AvailableForSale" -> 5 [] s = "Sold" -> 6 [] s = "Recalled" -> 7

\* ---------------------------------------------------------------- C1
C1_RejectsNonForward ==
  \A req \in Requests :
    ( /\ OnProduct(req)
      /\ req.status \in Statuses
      /\ products[req.pid].custodian = req.actor
      /\ req.status \in DocRoleSet(RoleOf(req.actor))
      /\ DocIndex(req.status) <= DocIndex(products[req.pid].current_status) )
    => TransferError(products, req) = "InvalidTransition"

C1_AcceptedForward ==
  UpdateOk =>
    \E pid \in DOMAIN products :
      /\ Touched(pid)
      /\ DocIndex(products'[pid].current_status)
           > DocIndex(products[pid].current_status)

C1_RejectionAnswered ==
  UpdateFails("InvalidTransition") =>
    \E req \in Requests :
      /\ OnProduct(req)
      /\ req.status \in Statuses
      /\ DocIndex(req.status) <= DocIndex(products[req.pid].current_status)

\* C1: Monotonicity of POST /update.  A transition is accepted only when the
\* requested status is strictly later in the status order than the product's
\* current status; a request of the custodian for a status of its role that
\* is not strictly later (a backward move or a repeat) is answered with
\* InvalidTransition, and InvalidTransition is answered to no other request.
C1_Monotonicity ==
  /\ []C1_RejectsNonForward
  /\ [][C1_AcceptedForward /\ C1_RejectionAnswered]_vars

\* A distributor's product past ReadyForShipping, and the last request on
\* it refused as a non-forward move.
C1_Witness ==
  /\ resp.op = "update" /\ resp.error = "InvalidTransition"
  /\ \E pid \in DOMAIN products :
       /\ products[pid].current_status = "Shipped"
       /\ Len(history[pid]) = 3

\* ---------------------------------------------------------------- C2
C2_GateRejects ==
  \A req \in Requests :
    ( /\ OnProduct(req)
      /\ req.actor # products[req.pid].custodian
      /\ RoleOf(req.actor) # "super_admin" )
    => TransferError(products, req) = "Forbidden: wrong custodian"

C2_NothingChanges ==
  UpdateFails("Forbidden: wrong custodian") => ProjectionUnchanged

\* C2: Custodian gate.  A transition request on an existing product by an
\* actor who is not its custodian and not a super_admin is answered with
\* Forbidden (wrong custodian) whatever the actor's role, the requested
\* status, the current status and the transfer target are, and the step
\* that answers so changes no product, no history and no block.
C2_CustodianGate ==
  /\ []C2_GateRejects
  /\ [][C2_NothingChanges]_vars

\* A product handed to the distributor bob, and a request of somebody else
\* on a product refused at the custodian gate.
C2_Witness ==
  /\ resp.op = "update" /\ resp.error = "Forbidden: wrong custodian"
  /\ \E pid \in DOMAIN products :
       /\ products[pid].custodian = "bob"
       /\ products[pid].current_status = "ReadyForShipping"

\* ---------------------------------------------------------------- C3
C3_AcceptedInRoleSet ==
  UpdateOk =>
    \E pid \in DOMAIN products :
      /\ Touched(pid)
      /\ Last(history'[pid]).status = products'[pid].current_status
      /\ Last(history'[pid]).status
           \in DocRoleSet(RoleOf(Last(history'[pid]).by_who))

C3_RejectsOutsideSet ==
  \A req \in Requests :
    ( /\ OnProduct(req)
      /\ req.actor = products[req.pid].custodian
      /\ req.status \notin DocRoleSet(RoleOf(req.actor)) )
    => TransferError(products, req) = "Forbidden: role cannot set status"

C3_RejectsRoleWithoutEntry ==
  \A req \in Requests :
    ( /\ OnProduct(req)
      /\ RoleOf(req.actor) \notin {"manufacturer", "distributor", "retailer"} )
    => /\ TransferError(products, req)
            \in {"Forbidden: role cannot set status",
                 "Forbidden: role not permitted"}
       /\ HttpCode(TransferError(products, req)) = 403

DocPredecessor(status) ==
  CASE status = "InTransit" -> "Shipped"
    [] status = "DeliveredToRetailer" -> "InTransit"

C4_AcceptedInSequence ==
  UpdateOk =>
    \A pid \in DOMAIN products :
      ( /\ Touched(pid)
        /\ RoleOf(Last(history'[pid]).by_who) = "distributor"
        /\ products'[pid].current_status \in {"InTransit", "DeliveredToRetailer"} )
      => products[pid].current_status
           = DocPredecessor(products'[pid].current_status)

C4_RejectsSkips ==
  \A req \in Requests :
    ( /\ OnProduct(req)
      /\ req.actor = products[req.pid].custodian
      /\ RoleOf(req.actor) = "distributor"
      /\ \/ /\ req.status = "InTransit"
            /\ products[req.pid].current_status = "ReadyForShipping"
         \/ /\ req.status = "DeliveredToRetailer"
            /\ products[req.pid].current_status \in {"ReadyForShipping", "Shipped"} )
    => TransferError(products, req) = "InvalidSequence"

C4_NothingChanges == UpdateFails("InvalidSequence") => ProjectionUnchanged

\* C4: Distributor sequence.  A distributor's transition to InTransit is
\* accepted only from Shipped and to DeliveredToRetailer only from
\* InTransit; the distributor custodian asking for InTransit from
\* ReadyForShipping, or for DeliveredToRetailer from ReadyForShipping or
\* Shipped, is answered with InvalidSequence and nothing changes.
C4_DistributorSequence ==
  /\ []C4_RejectsSkips
  /\ [][C4_AcceptedInSequence /\ C4_NothingChanges]_vars

\* bob holds a product in ReadyForShipping and was refused a skip.
C4_Witness ==
  /\ resp.op = "update" /\ resp.error = "InvalidSequence"
  /\ \E pid \in DOMAIN products :
       /\ products[pid].custodian = "bob"
       /\ products[pid].current_status = "ReadyForShipping"

\* ---------------------------------------------------------------- C5
DocHandoffRole(status) ==
  CASE status = "ReadyForShipping" -> "distributor"
    [] status = "DeliveredToRetailer" -> "retailer"

DocHandoff == {"ReadyForShipping", "DeliveredToRetailer"}

\* The request passes rules 1-5 of the pipeline in the current state.
PassesRules1to5(req) ==
  /\ OnProduct(req)
  /\ req.actor = products[req.pid].custodian
  /\ req.status \in DocRoleSet(RoleOf(req.actor))
  /\ DocIndex(req.status) > DocIndex(products[req.pid].current_status)
  /\ ( RoleOf(req.actor) = "distributor"
       /\ req.status \in {"InTransit", "DeliveredToRetailer"} )
     => products[req.pid].current_status = DocPredecessor(req.status)

C5_TargetChecked ==
  \A req \in Requests :
    (PassesRules1to5(req) /\ req.status \in DocHandoff) =>
      LET err == TransferError(products, req) IN
      /\ req.transfer_to = None => err = "MissingTransferTarget"
      /\ (req.transfer_to # None /\ req.transfer_to \notin Users)
           => err = "NotFound: recipient"
      /\ ( req.transfer_to \in Users
           /\ UserRole[req.transfer_to] # DocHandoffRole(req.status) )
           => err = "RoleMismatch"
      /\ ( req.transfer_to \in Users
           /\ UserRole[req.transfer_to] = DocHandoffRole(req.status) )
           => /\ err = "ok"
              /\ TransferCommit(products, req, products[req.pid])[req.pid].custodian
                   = req.transfer_to

C5_RejectedBeforeMutation ==
  ( \/ UpdateFails("MissingTransferTarget")
    \/ UpdateFails("NotFound: recipient")
    \/ UpdateFails("RoleMismatch") )
  => ProjectionUnchanged

C5_AcceptedHandoff ==
  UpdateOk =>
    \A pid \in DOMAIN products :
      (Touched(pid) /\ products'[pid].current_status \in DocHandoff)
      => /\ products'[pid].custodian \in Users
         /\ UserRole[products'[pid].custodian]
              = DocHandoffRole(products'[pid].current_status)

\* C5: Handoff requires a valid target.  A transition to ReadyForShipping or
\* DeliveredToRetailer that passes rules 1-5 is answered with
\* MissingTransferTarget without a target, NotFound for an unknown target
\* and RoleMismatch for a target whose role is not the expected one, each
\* before anything is written; with an existing target of the expected role
\* the handoff is accepted and the custodian becomes that target.
C5_HandoffTarget ==
  /\ []C5_TargetChecked
  /\ [][C5_RejectedBeforeMutation /\ C5_AcceptedHandoff]_vars

\* The handoff to the retailer dan has been accepted and recorded.
C5_Witness ==
  /\ resp.op = "update" /\ resp.error = "ok"
  /\ \E pid \in DOMAIN products :
       /\ products[pid].custodian = "dan"
       /\ products[pid].current_status = "DeliveredToRetailer"
       /\ Last(history[pid]).status = "DeliveredToRetailer"
       /\ Last(history[pid]).by_who = "bob"

\* ---------------------------------------------------------------- C6
\* The errors of the validation and authorization rules of POST /update.
ValidationErrors ==
  { "ValidationError", "NotFound: product", "Forbidden: role not permitted",
    "Forbidden: wrong custodian", "Forbidden: role cannot set status",
    "InvalidTransition", "InvalidSequence", "MissingTransferTarget",
    "NotFound: recipient", "RoleMismatch" }

C6_RejectionChangesNothing ==
  (resp'.op = "update" /\ resp'.error \in ValidationErrors)
  => UNCHANGED << products, history, chain, nextId, failures >>

C6_RejectionIsValidationError ==
  \A req \in Requests :
    LET err == TransferError(products, req) IN
    /\ err \in ValidationErrors \cup {"ok"}
    /\ err = "ok" <=> (PassesRules1to5(req)
                        /\ (req.status \in DocHandoff =>
                              /\ req.transfer_to \in Users
                              /\ UserRole[req.transfer_to] = DocHandoffRole(req.status)))

\* C6: Atomic validate-then-commit.  Every transition request that fails a
\* validation or authorization rule (missing field, product not found, wrong
\* custodian, role cannot set status, invalid transition, invalid sequence,
\* missing, unknown or wrong-role transfer target) leaves every product's
\* status, custodian and owner, every history and the whole ledger as they
\* were; every request that fails a rule is answered with one of these
\* errors.
C6_AtomicValidation ==
  /\ []C6_RejectionIsValidationError
  /\ [][C6_RejectionChangesNothing]_vars

\* A handoff refused for its target while a product is still in Created
\* and the ledger holds its creation block.
C6_Witness ==
  /\ resp.op = "update" /\ resp.error = "RoleMismatch"
  /\ Len(chain) >= 2
  /\ \E pid \in DOMAIN products :
       /\ products[pid].current_status = "Created"
       /\ Len(history[pid]) = 1

\* ---------------------------------------------------------------- C7
\* The step answers a POST /update with success and a block.
UpdateOkWithBlock == UpdateOk /\ resp'.block # NoBlock

C7_Effect ==
  UpdateOkWithBlock =>
    \E pid \in DOMAIN products :
      LET rec == Last(history'[pid])
          b == Last(chain')
          handoff == rec.status \in DocHandoff
      IN /\ Touched(pid)
         /\ history'[pid] = Append(history[pid], rec)
         /\ rec.by_who = products[pid].custodian
         /\ DOMAIN products' = DOMAIN products
         /\ DOMAIN history' = DOMAIN history
         /\ products'[pid].current_status = rec.status
         /\ products'[pid].owner = products[pid].owner
         /\ ~handoff => products'[pid].custodian = products[pid].custodian
         /\ handoff => UserRole[products'[pid].custodian] = DocHandoffRole(rec.status)
         /\ chain' = Append(chain, b)
         /\ resp'.block = b.index
         /\ b.data.product_id = pid
         /\ b.data.status = rec.status
         /\ b.data.actor = rec.by_who
         /\ b.data.new_custodian = products'[pid].custodian
         /\ b.data.type = IF handoff THEN "custody_transfer" ELSE "status_update"
         /\ \A q \in DOMAIN products \ {pid} :
              products'[q] = products[q] /\ history'[q] = history[q]

\* C7: Effect of an accepted transition whose ledger append succeeds.  The
\* product's status becomes the requested status, its custodian becomes the
\* transfer target on a handoff status and is otherwise unchanged, exactly
\* one history record is added for it, and exactly one block is appended
\* that carries the product id, the resulting status, the actor and the
\* resulting custodian, typed custody_transfer on a handoff status and
\* status_update otherwise; no other product changes.
C7_AcceptedEffect == [][C7_Effect]_vars

\* Two products exist, and the last request handed one of them over.
C7_Witness ==
  /\ resp.op = "update" /\ resp.error = "ok" /\ resp.block # NoBlock
  /\ Cardinality(DOMAIN products) = 2
  /\ Last(chain).data.type = "custody_transfer"
  /\ Last(chain).data.new_custodian = "bob"

\* ---------------------------------------------------------------- C8
\* The step answers a create with 201.
CreateOk == resp'.op = "create" /\ resp'.code = 201

C8_OnlyManufacturer ==
  \A actor \in Users, hasName \in BOOLEAN :
    CreateError(actor, hasName) = "ok" => UserRole[actor] = "manufacturer"

C8_CreateEffect ==
  CreateOk =>
    \E pid \in DOMAIN products' \ DOMAIN products :
      LET a == products'[pid].owner
          b == Last(chain')
      IN /\ DOMAIN products' = DOMAIN products \cup {pid}
         /\ \A q \in DOMAIN products :
              products'[q] = products[q] /\ history'[q] = history[q]
         /\ UserRole[a] = "manufacturer"
         /\ products'[pid] =
              [ current_status |-> "Created", owner |-> a, custodian |-> a ]
         /\ history'[pid] = << [ status |-> "Created", by_who |-> a ] >>
         /\ chain' = Append(chain, b)
         /\ b.data.type = "create_product"
         /\ b.data.product_id = pid
         /\ b.data.owner = a /\ b.data.initial_custodian = a
         /\ (Len(chain) = 1 => Len(chain') = 2)

C8_CreatedOnlyByCreate ==
  \A pid \in DOMAIN products' :
    ( /\ products'[pid].current_status = "Created"
      /\ (pid \in DOMAIN products => products[pid].current_status # "Created") )
    => /\ resp'.op = "create"
       /\ pid \notin DOMAIN products

\* C8: Creation.  Only a manufacturer can create a product; a successful
\* create by actor a adds a product under an id no existing product has,
\* with status Created, owner = custodian = a and one history record
\* (Created, by a), and appends one block of type create_product for that
\* id, so the first create on a fresh ledger leaves it at length 2.  No
\* other operation brings a product into status Created.
C8_Creation ==
  /\ []C8_OnlyManufacturer
  /\ [][C8_CreateEffect /\ C8_CreatedOnlyByCreate]_vars

\* The first create on the fresh ledger: alice's product and its block.
C8_Witness ==
  /\ resp.op = "create" /\ resp.code = 201
  /\ Len(chain) = 2
  /\ chain[2].data.type = "create_product"
  /\ DOMAIN products = {1}
  /\ products[1] = [ current_status |-> "Created", owner |-> "alice",
                     custodian |-> "alice" ]

\* ---------------------------------------------------------------- C9
\* The blocks of a product in chain order, as the query is documented.
DocQuery(ch, pid) ==
  SelectSeq(ch, LAMBDA b : "product_id" \in DOMAIN b.data /\ b.data.product_id = pid)

IsPrefix(s, t) ==
  /\ Len(s) <= Len(t)
  /\ \A i \in 1..Len(s) : t[i] = s[i]

C9_AppendOnly == IsPrefix(chain, chain')

C9_QueryKeepsOrder ==
  \A pid \in Pids :
    /\ ProductBlocks(chain, pid) = DocQuery(chain, pid)
    /\ IsPrefix(ProductBlocks(chain, pid), ProductBlocks(chain', pid))

C9_ReadChangesNothing ==
  resp'.op = "get_product_blockchain" =>
    UNCHANGED << products, history, chain, nextId, failures >>

C9_DeleteAppends ==
  (resp'.op = "delete" /\ resp'.error = "ok") =>
    \E pid \in DOMAIN products :
      LET b == Last(chain') IN
      /\ DOMAIN products' = DOMAIN products \ {pid}
      /\ DOMAIN history' = DOMAIN history \ {pid}
      /\ \A q \in DOMAIN products' :
           products'[q] = products[q] /\ history'[q] = history[q]
      /\ chain' = Append(chain, b)
      /\ b.data.type = "delete_product"
      /\ b.data.product_id = pid
      /\ ProductBlocks(chain', pid) = Append(ProductBlocks(chain, pid), b)

\* C9: The ledger is append-only across every operation.  Over any sequence
\* of creates, transitions (accepted or rejected), deletes and reads the
\* chain never gets shorter and every block keeps its position and fields.
\* A delete removes the product's row and history and no block: it appends
\* one block of type delete_product, and the per-product chain query still
\* returns the product's earlier blocks, in chain order.
C9_LedgerAppendOnly ==
  [][ /\ C9_AppendOnly
      /\ C9_QueryKeepsOrder
      /\ C9_ReadChangesNothing
      /\ C9_DeleteAppends ]_vars

\* A product was created, handed over and deleted: its three blocks are
\* what the per-product query returns.
C9_Witness ==
  /\ resp.op = "delete" /\ resp.error = "ok"
  /\ Last(chain).data.type = "delete_product"
  /\ LET blocks == ProductBlocks(chain, Last(chain).data.product_id) IN
     /\ Len(blocks) = 3
     /\ blocks[1].data.type = "create_product"
     /\ blocks[2].data.type = "custody_transfer"
     /\ blocks[3] = Last(chain)
  /\ Last(chain).data.product_id \notin DOMAIN products

\* --------------------------------------------------------------- C10
\* Worker t commits its transition in this step.
Commits(t) ==
  /\ thr[t].pc = "commit" /\ thr[t].op = "update"
  /\ thr'[t].pc = "append"

C10_NoRegress ==
  \A pid \in DOMAIN products \cap DOMAIN products' :
    DocIndex(products'[pid].current_status)
      >= DocIndex(products[pid].current_status)

C10_CommitOnStatusRead ==
  \A t \in Threads :
    Commits(t) =>
      products[thr[t].req.pid].current_status = thr[t].snap.current_status

\* C10: Lifetime monotonicity under concurrency.  With transition requests
\* for one product running concurrently as read, validate, write, commit
\* and append steps, the stored status index never decreases in any
\* interleaving, and no request commits against a status another request
\* has replaced since it was read: two requests never both read the same
\* current_status, both pass the monotonicity check and both commit.
C10_LifetimeMonotonic == [][C10_NoRegress /\ C10_CommitOnStatusRead]_vars

\* --------------------------------------------------------------- C11
\* No request is in flight.
Quiescent == \A t \in Threads : thr[t].pc = "idle"

IsTransitionBlock(b) == b.data.type \in {"custody_transfer", "status_update"}

\* The transition blocks of a product, in chain order.
TransitionBlocks(ch, pid) ==
  SelectSeq(ProductBlocks(ch, pid), IsTransitionBlock)

\* The product's create block was appended before any of its transition
\* blocks: the creation was answered before the transitions were sent.
CreatedFirst(pid) ==
  Head(ProductBlocks(chain, pid)).data.type = "create_product"

\* The last block carrying the product's id is a transition block and
\* records the status and the custodian the projection holds.
C11_LastBlockAgrees ==
  \A pid \in DOMAIN products :
    (TransitionBlocks(chain, pid) # << >> /\ CreatedFirst(pid)) =>
      LET b == Last(ProductBlocks(chain, pid)) IN
      /\ IsTransitionBlock(b)
      /\ b.data.status = products[pid].current_status
      /\ b.data.new_custodian = products[pid].custodian

\* The product's transition blocks stand in the chain in the order in
\* which the transitions were committed, which is the order of the
\* History records after the first.
C11_BlockOrderIsCommitOrder ==
  \A pid \in DOMAIN products :
    LET bs == TransitionBlocks(chain, pid) IN
    (bs # << >> /\ CreatedFirst(pid)) =>
      /\ Len(bs) = Len(history[pid]) - 1
      /\ \A i \in 1..Len(bs) :
           /\ bs[i].data.status = history[pid][i + 1].status
           /\ bs[i].data.actor = history[pid][i + 1].by_who

\* C11: Projection/ledger agreement.  In every state with no request in
\* flight, reached by any interleaving of concurrent accepted transitions
\* in which no ledger append has failed, for every live product with at
\* least one transition block the projection's current_status and
\* custodian equal the status and new_custodian of the last block carrying
\* the product id, and the product's blocks are in the order in which the
\* transitions were committed to the projection.
C11_ProjectionLedgerAgreement ==
  (Quiescent /\ failures = 0) =>
    (C11_LastBlockAgrees /\ C11_BlockOrderIsCommitOrder)

\* --------------------------------------------------------------- C12
\* The step is a create, transition or delete whose ledger append failed.
AppendFailed == failures' = failures + 1

\* The step committed a change of the projection.
ProjectionCommitted == products' # products /\ history' # history

\* C12: Ledger-append failure handling.  In create, transition and delete,
\* when the ledger append fails after the projection change has been
\* committed, the failure is caught: the operation still reports success
\* with a null block field, the committed projection change stays in place
\* and the ledger is left unchanged.
C12_AppendFailureCaught ==
  [][AppendFailed =>
       /\ resp'.op \in {"create", "update", "delete"}
       /\ resp'.error = "ok"
       /\ resp'.code \in {200, 201}
       /\ resp'.block = NoBlock
       /\ ProjectionCommitted
       /\ chain' = chain]_vars

\* --------------------------------------------------------------- C13
C13_IndexIsPosition ==
  \A i \in 1..Len(chain) : chain[i].index = i - 1

C13_LinkedToPredecessor ==
  \A i \in 2..Len(chain) : chain[i].previous_hash = chain[i - 1].hash

C13_NoSharedIndexOrPredecessor ==
  \A i, j \in 1..Len(chain) :
    i # j => /\ chain[i].index # chain[j].index
             /\ chain[i].previous_hash # chain[j].previous_hash

ForgedHash == BlockHash(-1, 0, [type |-> "forged"], << >>)

\* The block b with one of its fields replaced by a different value, the
\* stored hash left as it was (or, for the hash field, replaced itself).
FieldMutations(b) ==
  { [ b EXCEPT !.index = @ + 1 ],
    [ b EXCEPT !.timestamp = @ + 1 ],
    [ b EXCEPT !.data = [type |-> "forged"] ],
    [ b EXCEPT !.previous_hash = ForgedHash ],
    [ b EXCEPT !.hash = ForgedHash ] }
  \cup IF "status" \in DOMAIN b.data
       THEN { [ b EXCEPT !.data.status = "Recalled" ] }
       ELSE {}

\* The chain with the block at position i replaced by m.
Tamper(ch, i, m) == [ ch EXCEPT ![i] = m ]

\* The chain as the appends built it verifies.
C14_BuiltChainValid == VerifyChain(chain).valid

\* A mutation of one field of the block at position i is reported at that
\* block's index.
C14_DetectedAt(i) ==
  \A m \in FieldMutations(chain[i]) :
    VerifyChain(Tamper(chain, i, m)) = [ valid |-> FALSE, index |-> i - 1 ]

\* C14: Tamper detection.  On a chain built only by appends VerifyChain
\* returns valid; after a mutation of any single field (index, timestamp,
\* data, previous_hash or hash) of any one stored block, the genesis block
\* and the last block included, VerifyChain returns invalid and reports the
\* index of the mutated block.
C14_TamperDetection ==
  /\ C14_BuiltChainValid
  /\ \A i \in 1..Len(chain) : C14_DetectedAt(i)

\* What does hold: the mutations of every block after the genesis block.
C14_DetectedAfterGenesis ==
  /\ C14_BuiltChainValid
  /\ \A i \in 2..Len(chain) : C14_DetectedAt(i)

\* --------------------------------------------------------------- C15
\* Some request that asks status t for product pid, sent by an actor whose
\* role may set t, is accepted in the current state.
CanReach(pid, t) ==
  \E req \in Requests :
    /\ req.pid = pid
    /\ req.status = t
    /\ t \in DocRoleSet(RoleOf(req.actor))
    /\ TransferError(products, req) = "ok"

\* The claim as stated: from status s every later status t, Recalled
\* included, is one accepted transition away.
C15_AnyLaterStatusInOneStep ==
  \A pid \in DOMAIN products : \A t \in Statuses :
    DocIndex(t) > DocIndex(products[pid].current_status) => CanReach(pid, t)

\* The pairs (s, t) with t one accepted transition away from s.
DocSteps ==
  { << "Created", "ReadyForShipping" >>,
    << "ReadyForShipping", "Shipped" >>,
    << "Shipped", "InTransit" >>,
    << "InTransit", "DeliveredToRetailer" >>,
    << "DeliveredToRetailer", "AvailableForSale" >>,
    << "DeliveredToRetailer", "Sold" >>,
    << "AvailableForSale", "Sold" >> }

\* Some request asking t for product pid is accepted exactly when t is a
\* documented step from the product's status.
C15_ReachExactlySteps ==
  \A pid \in DOMAIN products : \A t \in Statuses :
    ( \E req \in Requests :
        /\ req.pid = pid /\ req.status = t
        /\ TransferError(products, req) = "ok" )
    <=> << products[pid].current_status, t >> \in DocSteps

\* Every accepted transition takes the product along a documented step.
C15_AcceptedIsStep ==
  UpdateOk =>
    \A pid \in DOMAIN history :
      Touched(pid) =>
        << products[pid].current_status, products'[pid].current_status >>
          \in DocSteps

\* C15 (amended): with the requests on a product served one after the
\* other, a single accepted transition takes a product from s to t exactly
\* for the pairs Created -> ReadyForShipping -> Shipped -> InTransit ->
\* DeliveredToRetailer -> AvailableForSale -> Sold and DeliveredToRetailer
\* -> Sold; every other later status, Recalled included, is rejected.
C15_SingleStepReach == []C15_ReachExactlySteps /\ [][C15_AcceptedIsStep]_vars

\* A product went from DeliveredToRetailer to Sold, the one skip there is.
C15_Witness ==
  \E pid \in DOMAIN history :
    /\ Len(history[pid]) >= 2
    /\ products[pid].current_status = "Sold"
    /\ history[pid][Len(history[pid]) - 1].status = "DeliveredToRetailer"
    /\ resp.op = "update" /\ resp.error = "ok"

\* --------------------------------------------------------------- C16
\* Every transition request that names product pid.
RequestsFor(pid) ==
  [ actor : Users, pid : {pid}, status : ReqStatuses, transfer_to : ReqTargets ]

DeadEnds == {"Sold", "Recalled"}

\* Every request for a product in Sold or Recalled is rejected.
C16_AllRejected ==
  \A pid \in DOMAIN products :
    products[pid].current_status \in DeadEnds =>
      \A req \in RequestsFor(pid) : TransferError(products, req) # "ok"

\* No run brings a product to Recalled; the row of any live product with
\* Recalled in place of its status rejects every request as well.
C16_RecalledRejects ==
  \A pid \in DOMAIN products :
    \A req \in RequestsFor(pid) :
      TransferError([ products EXCEPT ![pid].current_status = "Recalled" ],
                    req) # "ok"

\* A product in Sold or Recalled that is still there after a step has the
\* row it had before.
C16_Frozen ==
  \A pid \in DOMAIN products \cap DOMAIN products' :
    products[pid].current_status \in DeadEnds =>
      products'[pid] = products[pid]

\* C16: Sold and Recalled are dead ends.  Once a product's status is Sold
\* or Recalled, every further transition request for it, by any actor with
\* any requested status and transfer target, is rejected, and its status
\* and custodian never change again; only a delete still affects it.
C16_DeadEndStatuses ==
  [](C16_AllRejected /\ C16_RecalledRejects) /\ [][C16_Frozen]_vars

\* A request for the only product, which is in Sold, has been rejected.
C16_Witness ==
  \E pid \in DOMAIN products :
    /\ DOMAIN products = {pid}
    /\ products[pid].current_status = "Sold"
    /\ resp.op = "update"
    /\ resp.error = "Forbidden: role cannot set status"

\* --------------------------------------------------------------- C17
\* The error of the first violated rule in the documented order, for a
\* request that names a product and a status, against the product table ps.
DocFirstViolated(ps, req) ==
  LET role == RoleOf(req.actor) IN
  IF req.pid \notin DOMAIN ps THEN "NotFound: product"
  ELSE IF req.actor # ps[req.pid].custodian /\ role # "super_admin"
  THEN "Forbidden: wrong custodian"
  ELSE IF req.status \notin DocRoleSet(role)
  THEN "Forbidden: role cannot set status"
  ELSE IF DocIndex(req.status) <= DocIndex(ps[req.pid].current_status)
  THEN "InvalidTransition"
  ELSE IF /\ role = "distributor"
          /\ req.status \in {"InTransit", "DeliveredToRetailer"}
          /\ ps[req.pid].current_status # DocPredecessor(req.status)
  THEN "InvalidSequence"
  ELSE IF req.status \notin DocHandoff THEN "ok"
  ELSE IF req.transfer_to = None THEN "MissingTransferTarget"
  ELSE IF req.transfer_to \notin Users THEN "NotFound: recipient"
  ELSE IF UserRole[req.transfer_to] # DocHandoffRole(req.status)
  THEN "RoleMismatch"
  ELSE "ok"

\* The request carries both required fields.
HasFields(req) == req.pid # NoPid /\ req.status # None

\* The roles the /update route lets in.
DocRouteRoles == {"manufacturer", "distributor", "retailer"}

C17_OrderFromRouteOn ==
  \A req \in Requests :
    TransferError(products, req) =
      IF RoleOf(req.actor) \notin DocRouteRoles
      THEN "Forbidden: role not permitted"
      ELSE IF ~HasFields(req) THEN "ValidationError"
      ELSE DocFirstViolated(products, req)

\* The same on the row of each live product with a distributor put in as
\* its custodian, which covers a distributor custodian at every status.
C17_OrderForDistributorCustodian ==
  \A pid \in DOMAIN products :
    LET ps == [ products EXCEPT ![pid].custodian = "bob" ] IN
    \A req \in RequestsFor(pid) :
      (RoleOf(req.actor) \in DocRouteRoles /\ HasFields(req)) =>
        TransferError(ps, req) = DocFirstViolated(ps, req)

C18_OwnerFixed ==
  \A pid \in DOMAIN products \cap DOMAIN products' :
    products'[pid].owner = products[pid].owner

\* A custodian changes only in an accepted transition of that product to a
\* handoff status.
C18_CustodianChangesOnHandoff ==
  \A pid \in DOMAIN products \cap DOMAIN products' :
    products'[pid].custodian # products[pid].custodian =>
      /\ UpdateOk
      /\ Touched(pid)
      /\ products'[pid].current_status \in DocHandoff
      /\ products'[pid].current_status # products[pid].current_status

\* An accepted transition to a status that is no handoff keeps the
\* custodian.
C18_NonHandoffKeepsCustodian ==
  \A pid \in DOMAIN products \cap DOMAIN products' :
    ( /\ UpdateOk
      /\ Touched(pid)
      /\ products'[pid].current_status
           \in {"Shipped", "InTransit", "AvailableForSale", "Sold"} )
    => products'[pid].custodian = products[pid].custodian

\* Rejected requests and reads keep every custodian.
C18_RejectedAndReadsKeepCustodian ==
  ( \/ resp'.op = "update" /\ resp'.error # "ok"
    \/ resp'.op = "get_product_blockchain" )
  => products' = products

\* C18: Frame of custodian and owner.  Across any sequence of operations a
\* product's owner never changes after creation, and its custodian changes
\* only in an accepted transition to a handoff status (ReadyForShipping,
\* DeliveredToRetailer); every accepted transition to another status, every
\* rejected request and every read leave the custodian as it was.
C18_CustodianOwnerFrame ==
  [][ /\ C18_OwnerFixed
      /\ C18_CustodianChangesOnHandoff
      /\ C18_NonHandoffKeepsCustodian
      /\ C18_RejectedAndReadsKeepCustodian ]_vars

\* The retailer holds a product he has put on sale: two handoffs and
\* transitions of both kinds lie behind it, the owner is still alice.
C18_Witness ==
  \E pid \in DOMAIN products :
    /\ products[pid].current_status = "AvailableForSale"
    /\ products[pid].custodian = "dan"
    /\ products[pid].owner = "alice"
    /\ Len(history[pid]) = 6
    /\ resp.op = "update" /\ resp.error = "ok"

\* --------------------------------------------------------------- C19
\* The role the custodian of a product in each status has.
C19_StatusDeterminesRole ==
  \A pid \in DOMAIN products :
    LET p == products[pid] IN
    /\ p.current_status = "Created" =>
         /\ p.custodian = p.owner
         /\ UserRole[p.owner] = "manufacturer"
    /\ p.current_status \in {"ReadyForShipping", "Shipped", "InTransit"} =>
         UserRole[p.custodian] = "distributor"
    /\ p.current_status \in {"DeliveredToRetailer", "AvailableForSale", "Sold"} =>
         UserRole[p.custodian] = "retailer"

DocFullSequence ==
  << "Created", "ReadyForShipping", "Shipped", "InTransit",
     "DeliveredToRetailer", "AvailableForSale", "Sold" >>

\* The sequence that skips AvailableForSale.
DocShortSequence ==
  << "Created", "ReadyForShipping", "Shipped", "InTransit",
     "DeliveredToRetailer", "Sold" >>

\* The statuses a product has gone through, from its History records.
StatusSequence(pid) ==
  [ i \in 1..Len(history[pid]) |-> history[pid][i].status ]

\* The statuses gone through are a prefix of the sequence, with or without
\* AvailableForSale, and end in the current status.
C19_SequenceIsPrefix ==
  \A pid \in DOMAIN products :
    /\ \/ IsPrefix(StatusSequence(pid), DocFullSequence)
       \/ IsPrefix(StatusSequence(pid), DocShortSequence)
    /\ Last(StatusSequence(pid)) = products[pid].current_status

C19_NeverRecalled ==
  \A pid \in DOMAIN products : products[pid].current_status # "Recalled"

\* C19: With user roles fixed and the requests on a product not
\* interleaved, in every reachable state the status determines the role of
\* the custodian: Created, the owner, a manufacturer; ReadyForShipping,
\* Shipped, InTransit, a distributor; DeliveredToRetailer, AvailableForSale,
\* Sold, a retailer.  The statuses a product goes through are a prefix of
\* Created, ReadyForShipping, Shipped, InTransit, DeliveredToRetailer,
\* [AvailableForSale,] Sold, and Recalled is never reached.
C19_StatusRoleInvariant ==
  /\ C19_StatusDeterminesRole
  /\ C19_SequenceIsPrefix
  /\ C19_NeverRecalled

\* A product sold by the retailer straight after delivery: it has been
\* with the manufacturer, the distributor and the retailer.
C19_Witness ==
  \E pid \in DOMAIN products :
    /\ StatusSequence(pid) = DocShortSequence
    /\ products[pid].custodian = "dan"
    /\ history[pid][2].by_who = "alice"
    /\ history[pid][3].by_who = "bob"

C20_OverrideRefusedAtRoute ==
  \A req \in Requests :
    RoleOf(req.actor) = "super_admin" =>
      TransferError(products, req) = "Forbidden: role not permitted"

\* The actor of an accepted transition is the custodian the product had
\* before it, and is the one signed in the History record and the block.
C20_ActorIsCustodian ==
  UpdateOk =>
    \A pid \in DOMAIN history :
      Touched(pid) =>
        /\ Last(history'[pid]).by_who = products[pid].custodian
        /\ RoleOf(products[pid].custodian) # "super_admin"
        /\ chain' # chain =>
             /\ Last(chain').data.product_id = pid
             /\ Last(chain').data.actor = products[pid].custodian

====
